---- MODULE Spec2Model ----
(***************************************************************************)
(* FlowCat (src/main.py): a goal store linked to a Pomodoro timer.         *)
(*                                                                         *)
(* State modelled: FlowCatApp.data ("goals", "pomodoro_sessions"),         *)
(* FlowCatApp.active_goal_index, the reactive fields of the Pomodoro       *)
(* widget (working, running, minutes, seconds, sessions), the data file    *)
(* written by save_data, the last notification shown by notify(), and      *)
(* whether the application is still alive (an exception that escapes a     *)
(* message handler ends it).                                               *)
(*                                                                         *)
(* Conventions:                                                            *)
(*  - positions in data["goals"] are 1-based here (Python: 0-based), and   *)
(*    NoGoal (0) stands for active_goal_index = None;                      *)
(*  - the text of an Input widget is a string; int() is IntText, defined   *)
(*    on the decimal texts only (anything else raises ValueError);         *)
(*  - dates are ISO "YYYY-MM-DD" strings compared as strings in the code;  *)
(*    they are day numbers here (same order), and 0 is the empty string,   *)
(*    which is below every date and falsy for `or`;                        *)
(*  - the "difficulty" field is display-only and left out of the records;  *)
(*  - the widget queries of the handlers (query_one, mount, update) are    *)
(*    taken to succeed; list indexing keeps its IndexError.                *)
(***************************************************************************)
EXTENDS Integers, Sequences, FiniteSets, TLC

VARIABLES
    goals,              \* self.data["goals"]: sequence of goal records
    pomodoro_sessions,  \* self.data["pomodoro_sessions"]
    active_goal_index,  \* FlowCatApp.active_goal_index (NoGoal = None)
    working,            \* Pomodoro.working
    running,            \* Pomodoro.running
    minutes,            \* Pomodoro.minutes
    seconds,            \* Pomodoro.seconds
    sessions,           \* Pomodoro.sessions
    file,               \* content of DATA_FILE, or NoFile
    notice,             \* the message the last handler handed to notify()
    alive,              \* FALSE once an exception escaped a handler
    ticks               \* timer callbacks counted by the start-then-ticks scenario

vars == <<goals, pomodoro_sessions, active_goal_index, working, running,
          minutes, seconds, sessions, file, notice, alive, ticks>>

store == <<goals, pomodoro_sessions, file>>
timer == <<working, running, minutes, seconds, sessions>>

----------------------------------------------------------------------------
(* Bounds of the model *)

MaxGoals == 2
MaxSessions == 2
SeedLevels == 1
SeedPomodoros == 2

(* Program constants *)

WorkMinutes == 25
BreakMinutes == 5
LastSecond == 59
DefaultSpan == 7
NoGoal == 0
NoDate == 0
Today == 10

----------------------------------------------------------------------------
(* Input texts and their conversions *)

\* int(text) of lines 390-391 and 437-440, on the texts the model enters;
\* a text outside the domain makes int() raise ValueError.
IntText ==
    ("-1" :> -1) @@ ("0" :> 0) @@ ("1" :> 1) @@ ("2" :> 2) @@ ("3" :> 3)
    @@ ("4" :> 4) @@ ("5" :> 5)

IsInt(text) == text \in DOMAIN IntText

\* str(n) of lines 418-419: the text the edit screen shows for a stored number.
StrOf(n) == CHOOSE text \in DOMAIN IntText : IntText[text] = n

\* `value or default` of lines 394-395: the empty text is falsy.
OrDefault(value, default) == IF value = NoDate THEN default ELSE value

Min(a, b) == IF a <= b THEN a ELSE b

----------------------------------------------------------------------------
(* The data file *)

NoFile == [exists |-> FALSE]

\* DumpGoal with the two counters of a goal written under each other's key.
DumpGoal_swapped(g) ==
    <<g.name, g.levels, g.pomodoros_per_level, g.progress,
      g.current_pomodoros, g.start, g.end>>

\* json.dump(data, f): the object written, goal by goal, key by key.
DumpGoal(g) ==
    <<g.name, g.levels, g.pomodoros_per_level, g.current_pomodoros,
      g.progress, g.start, g.end>>

save_data(gs, n) ==
    [exists |-> TRUE,
     goals |-> [i \in 1..Len(gs) |-> DumpGoal(gs[i])],
     pomodoro_sessions |-> n]

\* json.load(f): the goal dictionaries read back.
LoadGoal(t) ==
    [name |-> t[1], levels |-> t[2], pomodoros_per_level |-> t[3],
     current_pomodoros |-> t[4], progress |-> t[5], start |-> t[6],
     end |-> t[7]]

\* load_data that never finds the file.
load_data_fresh(f) == [goals |-> <<>>, pomodoro_sessions |-> 0]

load_data(f) ==
    IF f.exists
    THEN [goals |-> [i \in 1..Len(f.goals) |-> LoadGoal(f.goals[i])],
          pomodoro_sessions |-> f.pomodoro_sessions]
    ELSE [goals |-> <<>>, pomodoro_sessions |-> 0]

----------------------------------------------------------------------------
(* Goals *)

\* The dictionary built by NewGoalScreen on "save" (numbers already parsed).
new_goal(name, levels, pomodoros, start, end) ==
    [name |-> name,
     levels |-> levels,
     pomodoros_per_level |-> pomodoros,
     current_pomodoros |-> 0,
     progress |-> 0,
     start |-> OrDefault(start, Today),
     end |-> OrDefault(end, Today + DefaultSpan)]

\* The dictionary built by EditGoalScreen on "save" from the goal being edited.
updated_goal(g, name, levels, pomodoros, start, end) ==
    [name |-> name,
     levels |-> levels,
     pomodoros_per_level |-> pomodoros,
     current_pomodoros |-> g.current_pomodoros,
     progress |-> Min(g.progress, levels),
     start |-> start,
     end |-> end]

\* level_up without the reset of the session count.
level_up_keeps_count(g) == [g EXCEPT !.progress = g.progress + 1]

\* Goal.try_complete, the branch taken when progress < levels.
level_up(g) ==
    [g EXCEPT !.progress = g.progress + 1, !.current_pomodoros = 0]

\* credit with the reset nested under the progress test: at full progress
\* the session count is kept instead of discarded.
credit_keeps_surplus(g) ==
    LET n == g.current_pomodoros + 1 IN
    IF n >= g.pomodoros_per_level /\ g.progress < g.levels
    THEN [g EXCEPT !.current_pomodoros = 0, !.progress = g.progress + 1]
    ELSE [g EXCEPT !.current_pomodoros = n]

\* Pomodoro.complete_session: one finished work session credited to a goal.
credit(g) ==
    LET n == g.current_pomodoros + 1 IN
    IF n >= g.pomodoros_per_level
    THEN [g EXCEPT !.current_pomodoros = 0,
                   !.progress = IF g.progress < g.levels
                                THEN g.progress + 1 ELSE g.progress]
    ELSE [g EXCEPT !.current_pomodoros = n]

\* list.pop(index)
pop(seq, index) ==
    [i \in 1..(Len(seq) - 1) |-> IF i < index THEN seq[i] ELSE seq[i + 1]]

\* index_after_delete without the test of line 312.
index_after_delete_stale(active, index) == active

\* FlowCatApp.edit_goal, deleted=True: what becomes of active_goal_index.
index_after_delete(active, index) ==
    IF active = index THEN NoGoal ELSE active

\* FlowCatApp.get_active_goal raises IndexError on a position past the end.
IndexError(gs, active) == active # NoGoal /\ active > Len(gs)

\* credited with None read as position -1, the last goal of the list.
credited_last(gs, active) ==
    IF Len(gs) = 0 THEN gs
    ELSE [gs EXCEPT ![IF active = NoGoal THEN Len(gs) ELSE active] = credit(@)]

\* Lines 142-153: the goal list after a finished work session; the goal that
\* get_active_goal returns is credited and written back at its position.
credited(gs, active) ==
    IF active # NoGoal THEN [gs EXCEPT ![active] = credit(@)] ELSE gs

\* is_today without the test of the end date.
is_today_started(g) == g.start <= Today

\* Line 293: goal["start"] <= today <= goal["end"]
is_today(g) == g.start <= Today /\ Today <= g.end

\* FlowCatApp.get_goals(today_only=True): the loop of lines 292-296 from
\* position i on; the widgets are kept by the position they carry.
RECURSIVE today_from(_, _)
today_from(gs, i) ==
    IF i > Len(gs) THEN <<>>
    ELSE IF ~is_today(gs[i]) THEN today_from(gs, i + 1)
    ELSE <<i>> \o today_from(gs, i + 1)

today_goals(gs) == today_from(gs, 1)

----------------------------------------------------------------------------
(* Start of the application *)

\* FlowCatApp.__init__ and Pomodoro.__init__ on the data file f.
Launch(f) ==
    /\ goals = load_data(f).goals
    /\ pomodoro_sessions = load_data(f).pomodoro_sessions
    /\ sessions = load_data(f).pomodoro_sessions
    /\ active_goal_index = NoGoal
    /\ working = TRUE
    /\ running = FALSE
    /\ minutes = WorkMinutes
    /\ seconds = 0
    /\ file = f
    /\ notice = "none"
    /\ alive = TRUE
    /\ ticks = 0

\* A data file left by an earlier run, holding one goal.
SavedFile ==
    save_data(<<new_goal("Read", SeedLevels, SeedPomodoros, NoDate, NoDate)>>, 0)

Init == Launch(NoFile)

InitSaved == \E f \in {NoFile, SavedFile} : Launch(f)

----------------------------------------------------------------------------
(* The Pomodoro widget *)

\* phase_minutes without the break length.
phase_minutes_work(w) == WorkMinutes

\* Line 158: the countdown a phase starts from.
phase_minutes(w) == IF w THEN WorkMinutes ELSE BreakMinutes

\* The text handed to notify() by complete_session, by its parts.
session_message(w, gs, active) ==
    IF ~w THEN "break over"
    ELSE IF active = NoGoal THEN "work over"
    ELSE IF credit(gs[active]).progress > gs[active].progress
         THEN "work over, goal credited, level completed"
         ELSE "work over, goal credited"

\* counted that counts the end of a break as well.
counted_every_phase(w, n) == n + 1

\* Lines 137-138: sessions after the end of a phase; only work phases count.
counted(w, n) == IF w THEN n + 1 ELSE n

\* Pomodoro.complete_session, with the callbacks it calls
\* (update_active_goal_data, update_sessions).
complete_session ==
    IF working /\ IndexError(goals, active_goal_index)
    THEN \* get_active_goal raises after the count was raised
         /\ sessions' = sessions + 1
         /\ alive' = FALSE
         /\ notice' = "none"
         /\ UNCHANGED <<store, active_goal_index, working, running, minutes,
                        seconds>>
    ELSE LET count == counted(working, sessions)
             gs == IF working THEN credited(goals, active_goal_index) ELSE goals
         IN  /\ sessions' = count
             /\ goals' = gs
             /\ working' = ~working
             /\ minutes' = phase_minutes(~working)
             /\ seconds' = 0
             /\ running' = FALSE
             /\ notice' = session_message(working, goals, active_goal_index)
             /\ pomodoro_sessions' = count
             /\ file' = save_data(gs, count)
             /\ UNCHANGED <<active_goal_index, alive>>

\* The model stops counting work sessions at MaxSessions.
WithinSessions == working => sessions < MaxSessions

\* update_timer that counts down whether the timer runs or not.
update_timer_always ==
    IF seconds = 0
    THEN IF minutes = 0
         THEN WithinSessions /\ complete_session
         ELSE /\ minutes' = minutes - 1
              /\ seconds' = LastSecond
              /\ notice' = "none"
              /\ UNCHANGED <<store, active_goal_index, working, running,
                             sessions, alive>>
    ELSE /\ seconds' = seconds - 1
         /\ notice' = "none"
         /\ UNCHANGED <<store, active_goal_index, working, running,
                        minutes, sessions, alive>>

\* update_timer that returns at 00:00 without completing the session.
update_timer_stuck ==
    IF running /\ ~(minutes = 0 /\ seconds = 0)
    THEN update_timer_always
    ELSE /\ notice' = "none"
         /\ UNCHANGED <<store, active_goal_index, timer, alive>>

\* Pomodoro.update_timer, the set_interval callback.
update_timer ==
    IF running
    THEN IF seconds = 0
         THEN IF minutes = 0
              THEN WithinSessions /\ complete_session
              ELSE /\ minutes' = minutes - 1
                   /\ seconds' = LastSecond
                   /\ notice' = "none"
                   /\ UNCHANGED <<store, active_goal_index, working, running,
                                  sessions, alive>>
         ELSE /\ seconds' = seconds - 1
              /\ notice' = "none"
              /\ UNCHANGED <<store, active_goal_index, working, running,
                             minutes, sessions, alive>>
    ELSE /\ notice' = "none"
         /\ UNCHANGED <<store, active_goal_index, timer, alive>>

Tick == alive /\ update_timer /\ UNCHANGED ticks

\* Pomodoro.on_button_pressed
PressStart ==
    /\ alive
    /\ running' = TRUE
    /\ notice' = "none"
    /\ UNCHANGED <<store, active_goal_index, working, minutes, seconds,
                   sessions, alive, ticks>>

PressPause ==
    /\ alive
    /\ running' = FALSE
    /\ notice' = "none"
    /\ UNCHANGED <<store, active_goal_index, working, minutes, seconds,
                   sessions, alive, ticks>>

\* "skip" that only moves to the other phase, without complete_session.
PressSkip_flip ==
    /\ alive
    /\ working' = ~working
    /\ minutes' = IF working THEN BreakMinutes ELSE WorkMinutes
    /\ seconds' = 0
    /\ running' = FALSE
    /\ notice' = "none"
    /\ UNCHANGED <<store, active_goal_index, sessions, alive, ticks>>

PressSkip == alive /\ WithinSessions /\ complete_session /\ UNCHANGED ticks

PressReset ==
    /\ alive
    /\ running' = FALSE
    /\ minutes' = WorkMinutes
    /\ seconds' = 0
    /\ notice' = "none"
    /\ UNCHANGED <<store, active_goal_index, working, sessions, alive, ticks>>

----------------------------------------------------------------------------
(* The goal list *)

\* FlowCatApp.refresh_goals returns normally unless get_active_goal raises.
refresh_goals(gs, active) == ~IndexError(gs, active)

\* Goal.on_button_pressed, "complete-<index>": Goal.try_complete, whose
\* on_update is FlowCatApp.update_goal.
PressComplete(index) ==
    /\ alive
    /\ index \in 1..Len(goals)
    /\ IF goals[index].progress < goals[index].levels
       THEN /\ goals' = [goals EXCEPT ![index] = level_up(@)]
            /\ file' = save_data(goals', pomodoro_sessions)
            /\ alive' = refresh_goals(goals', active_goal_index)
            /\ notice' = IF alive' THEN "level completed" ELSE "none"
       ELSE /\ notice' = "all levels completed"
            /\ UNCHANGED <<goals, file, alive>>
    /\ UNCHANGED <<pomodoro_sessions, active_goal_index, timer, ticks>>

\* Goal.on_button_pressed, "execute-<index>"
PressExecute(index) ==
    /\ alive
    /\ index \in 1..Len(goals)
    /\ active_goal_index' = index
    /\ notice' = "goal activated"
    /\ alive' = refresh_goals(goals, index)
    /\ UNCHANGED <<store, timer, ticks>>

\* Goal.on_button_pressed, "cancel-<index>" (the button of any goal shown)
PressCancel ==
    /\ alive
    /\ Len(goals) > 0
    /\ active_goal_index' = NoGoal
    /\ notice' = "goal cancelled"
    /\ alive' = refresh_goals(goals, NoGoal)
    /\ UNCHANGED <<store, timer, ticks>>

\* FlowCatApp.on_key "d": random_select_today_goal
KeyD ==
    /\ alive
    /\ IF today_goals(goals) = <<>>
       THEN /\ notice' = "no goal today"
            /\ UNCHANGED <<active_goal_index, alive>>
       ELSE \E k \in 1..Len(today_goals(goals)) :
                /\ active_goal_index' = today_goals(goals)[k]
                /\ notice' = "goal picked at random"
                /\ alive' = refresh_goals(goals, active_goal_index')
    /\ UNCHANGED <<store, timer, ticks>>

\* NewGoalScreen.on_button_pressed, "save", whose on_done is
\* FlowCatApp.add_goal.  The arguments are the texts of the inputs.
NewGoalSave(name, levels, pomodoros, start, end) ==
    /\ alive
    /\ Len(goals) < MaxGoals
    /\ IF ~IsInt(levels) \/ ~IsInt(pomodoros)
       THEN /\ notice' = "input error"
            /\ UNCHANGED <<goals, file, alive>>
       ELSE IF name = ""
       THEN /\ notice' = "name required"
            /\ UNCHANGED <<goals, file, alive>>
       ELSE /\ goals' = Append(goals, new_goal(name, IntText[levels],
                                               IntText[pomodoros], start, end))
            /\ file' = save_data(goals', pomodoro_sessions)
            /\ alive' = refresh_goals(goals', active_goal_index)
            /\ notice' = IF alive' THEN "goal added" ELSE "none"
    /\ UNCHANGED <<pomodoro_sessions, active_goal_index, timer, ticks>>

\* EditGoalScreen.on_button_pressed, "save", whose on_done is
\* FlowCatApp.edit_goal(index, updated).
EditGoalSave(index, name, levels, pomodoros, start, end) ==
    /\ alive
    /\ index \in 1..Len(goals)
    /\ IF ~IsInt(levels) \/ ~IsInt(pomodoros)
       THEN /\ notice' = "input error"
            /\ UNCHANGED <<goals, file, alive>>
       ELSE IF name = ""
       THEN /\ notice' = "name required"
            /\ UNCHANGED <<goals, file, alive>>
       ELSE /\ goals' = [goals EXCEPT ![index] =
                            updated_goal(@, name, IntText[levels],
                                         IntText[pomodoros], start, end)]
            /\ file' = save_data(goals', pomodoro_sessions)
            /\ alive' = refresh_goals(goals', active_goal_index)
            /\ notice' = "none"
    /\ UNCHANGED <<pomodoro_sessions, active_goal_index, timer, ticks>>

\* EditGoalScreen.on_button_pressed, "delete", whose on_done is
\* FlowCatApp.edit_goal(index, goal_data, deleted=True).
EditGoalDelete(index) ==
    /\ alive
    /\ index \in 1..Len(goals)
    /\ goals' = pop(goals, index)
    /\ active_goal_index' = index_after_delete(active_goal_index, index)
    /\ notice' = IF active_goal_index = index
                 THEN "active goal deleted" ELSE "none"
    /\ file' = save_data(goals', pomodoro_sessions)
    /\ alive' = refresh_goals(goals', active_goal_index')
    /\ UNCHANGED <<pomodoro_sessions, timer, ticks>>

\* The application is closed (or has ended on an exception) and launched again.
Restart ==
    /\ goals' = load_data(file).goals
    /\ pomodoro_sessions' = load_data(file).pomodoro_sessions
    /\ sessions' = load_data(file).pomodoro_sessions
    /\ active_goal_index' = NoGoal
    /\ working' = TRUE
    /\ running' = FALSE
    /\ minutes' = WorkMinutes
    /\ seconds' = 0
    /\ notice' = "none"
    /\ alive' = TRUE
    /\ UNCHANGED <<file, ticks>>

----------------------------------------------------------------------------
(* Specifications *)

\* Texts entered in the goal screens.
LevelTexts == {"2"}
PomodoroTexts == {"1", "3"}

\* The goal list with the session completions that credit it.
NextStore ==
    \/ \E lv \in LevelTexts, pm \in PomodoroTexts :
           NewGoalSave("Read", lv, pm, NoDate, NoDate)
    \/ \E i \in 1..MaxGoals, lv \in LevelTexts, pm \in PomodoroTexts :
           /\ i <= Len(goals)
           /\ EditGoalSave(i, goals[i].name, lv, pm, goals[i].start, goals[i].end)
    \/ \E i \in 1..MaxGoals : EditGoalDelete(i)
    \/ \E i \in 1..MaxGoals : PressComplete(i)
    \/ \E i \in 1..MaxGoals : PressExecute(i)
    \/ PressCancel
    \/ PressSkip

SpecStore == Init /\ [][NextStore]_vars

\* The timer, with a goal from the data file made active or not.
NextTimer ==
    \/ PressStart
    \/ PressPause
    \/ PressReset
    \/ PressSkip
    \/ Tick
    \/ \E i \in 1..MaxGoals : PressExecute(i)
    \/ PressCancel

SpecTimer == InitSaved /\ [][NextTimer]_vars

\* "start" on a fresh timer, then nothing but timer callbacks, counted.
CountedTick == alive /\ running /\ update_timer /\ ticks' = ticks + 1

NextScenario4 ==
    \/ ~running /\ ticks = 0 /\ PressStart
    \/ CountedTick

SpecScenario4 == Init /\ [][NextScenario4]_vars

\* The goal screens with texts that are not all valid: an empty name, a text
\* that is no number, zero and a negative number.
NameTexts == {"", "Read"}
NumberTexts == {"x", "-1", "0", "1"}

NextInput ==
    \/ \E nm \in NameTexts, lv \in NumberTexts, pm \in NumberTexts :
           NewGoalSave(nm, lv, pm, NoDate, NoDate)
    \/ \E i \in 1..MaxGoals : EditGoalDelete(i)

SpecInput == Init /\ [][NextInput]_vars

\* Goals with date ranges around today, and the key that picks among
\* today's goals.  An empty date text takes the default of the screen.
DateTexts == {NoDate, Today - 1, Today, Today + 1}

NextToday ==
    \/ \E st \in DateTexts, en \in DateTexts :
           NewGoalSave("Read", "1", "1", st, en)
    \/ \E i \in 1..MaxGoals : EditGoalDelete(i)
    \/ KeyD

SpecToday == Init /\ [][NextToday]_vars

\* Goals credited by sessions, and the application launched again.
NextRestart ==
    \/ \E pm \in PomodoroTexts : NewGoalSave("Read", "2", pm, NoDate, NoDate)
    \/ \E i \in 1..MaxGoals : PressExecute(i)
    \/ PressStart
    \/ PressSkip
    \/ Restart

SpecRestart == Init /\ [][NextRestart]_vars

\* A goal that gains levels and pomodoros and is edited to another number
\* of levels; the edit screen takes every text that int() parses.
EditLevelTexts == {"-1", "1", "2"}

NextEdit ==
    \/ NewGoalSave("Read", "2", "1", NoDate, NoDate)
    \/ \E i \in 1..MaxGoals, lv \in EditLevelTexts :
           /\ i <= Len(goals)
           /\ EditGoalSave(i, goals[i].name, lv, "2", goals[i].start, goals[i].end)
    \/ \E i \in 1..MaxGoals : PressComplete(i)
    \/ \E i \in 1..MaxGoals : PressExecute(i)
    \/ PressSkip

SpecEdit == Init /\ [][NextEdit]_vars

\* A timer that is started or skipped and never paused or reset; set_interval
\* (line 110) keeps calling update_timer every second.
NextLive ==
    \/ PressStart
    \/ PressSkip
    \/ Tick

SpecLive == Init /\ [][NextLive]_vars /\ WF_vars(Tick)

\* Every handler at once.  The countdown alone has thousands of states, so
\* the specifications above explore the goal list (with "skip" as the way a
\* phase ends) and the timer (with the goal of the data file) separately;
\* the two meet only in complete_session.
Next == NextStore \/ NextTimer \/ KeyD \/ Restart

Spec == Init /\ [][Next]_vars

----------------------------------------------------------------------------
(* Properties *)

GoalInRange(g) ==
    /\ 0 <= g.progress /\ g.progress <= g.levels
    /\ 0 <= g.current_pomodoros /\ g.current_pomodoros <= g.pomodoros_per_level

\* a step of complete_session that ends a work phase (WorkSessionCompleted)
WorkSessionCompleted == working /\ ~working' /\ sessions' = sessions + 1

\* the timer callback that finds the countdown at 00:00
TickAtZero == Tick /\ running /\ minutes = 0 /\ seconds = 0

\* C1: under SpecStore, whose goals are all created and edited with positive
\* levels and pomodoros per level, every goal of every reachable state has
\* 0 <= progress <= levels and 0 <= current_pomodoros <= pomodoros_per_level.
C1_GoalsInRange == \A i \in 1..Len(goals) : GoalInRange(goals[i])

\* C2: a step that deletes a goal other than the active one leaves
\* active_goal_index on a position of the list, and the goal there is the
\* goal that was active before the step.
C2_DeleteKeepsActiveGoal ==
    [][\A j \in 1..MaxGoals :
          (EditGoalDelete(j) /\ active_goal_index # NoGoal
                             /\ active_goal_index # j)
          => /\ active_goal_index' \in 1..Len(goals')
             /\ goals'[active_goal_index'] = goals[active_goal_index]]_vars

\* C3: a step that deletes the goal at active_goal_index sets
\* active_goal_index to None, and a work session completed right after that
\* step leaves every goal as it was.
C3_DeleteActiveClears ==
    [][/\ \A j \in 1..MaxGoals :
             (EditGoalDelete(j) /\ active_goal_index = j)
             => active_goal_index' = NoGoal
       /\ (notice = "active goal deleted" /\ WorkSessionCompleted)
             => goals' = goals]_vars

C3_Witness ==
    /\ notice = "active goal deleted"
    /\ active_goal_index = NoGoal
    /\ Len(goals) > 0
    /\ working
    /\ alive

\* C4: in the run of "start" on a fresh timer followed by timer callbacks
\* only, after WorkMinutes * 60 = 1500 callbacks one work session has been
\* counted, the phase is Break, the countdown shows 05:00 and is stopped.
C4_CompletesAt1500 ==
    ticks = WorkMinutes * (LastSecond + 1)
    => /\ sessions = 1
       /\ ~working
       /\ minutes = BreakMinutes
       /\ seconds = 0
       /\ ~running

\* C5: every step of "reset" ends with the timer idle in the Working phase
\* at 25:00.
C5_ResetToIdleWorking ==
    [][PressReset
       => working' /\ ~running' /\ minutes' = WorkMinutes /\ seconds' = 0]_vars

\* C6: a completed work session with an active goal adds 1 to that goal's
\* current_pomodoros; if the sum reaches pomodoros_per_level, progress grows
\* by 1 only when it is below levels and current_pomodoros becomes 0 either
\* way; nothing else of that goal and no other goal changes.
C6_SessionCredit ==
    [][(WorkSessionCompleted /\ active_goal_index # NoGoal)
       => LET a == active_goal_index
              g == goals[a]
              n == g.current_pomodoros + 1
              reached == n >= g.pomodoros_per_level
          IN  /\ Len(goals') = Len(goals)
              /\ goals'[a].current_pomodoros = IF reached THEN 0 ELSE n
              /\ goals'[a].progress =
                     IF reached /\ g.progress < g.levels
                     THEN g.progress + 1 ELSE g.progress
              /\ goals'[a] = [g EXCEPT
                                !.current_pomodoros = goals'[a].current_pomodoros,
                                !.progress = goals'[a].progress]
              /\ \A i \in 1..Len(goals) : i # a => goals'[i] = goals[i]]_vars

\* a session was credited at full progress and the surplus was discarded
C6_Witness ==
    /\ notice = "work over, goal credited"
    /\ active_goal_index # NoGoal
    /\ goals[active_goal_index].progress = goals[active_goal_index].levels
    /\ goals[active_goal_index].current_pomodoros = 0

\* C7: a completed work session while active_goal_index is None leaves the
\* goal list as it was and adds 1 to sessions.
C7_NoActiveGoalNoCredit ==
    [][((PressSkip \/ TickAtZero) /\ working /\ active_goal_index = NoGoal)
       => goals' = goals /\ sessions' = sessions + 1]_vars

C7_Witness ==
    /\ notice = "work over"
    /\ active_goal_index = NoGoal
    /\ Len(goals) > 0
    /\ sessions > 0

\* C8: "complete level" on a goal below its levels adds 1 to its progress
\* and sets its current_pomodoros to 0, changing no other goal; on a goal at
\* its levels it changes neither the goal list nor the data file; in both
\* cases the handler returns without an exception.
C8_CompleteLevel ==
    [][\A i \in 1..MaxGoals :
          PressComplete(i)
          => /\ alive'
             /\ IF goals[i].progress < goals[i].levels
                THEN goals' = [goals EXCEPT
                                 ![i].progress = goals[i].progress + 1,
                                 ![i].current_pomodoros = 0]
                ELSE /\ goals' = goals
                     /\ file' = file
                     /\ pomodoro_sessions' = pomodoro_sessions]_vars

\* "complete level" was pressed on a goal already at its levels
C8_Witness ==
    /\ notice = "all levels completed"
    /\ \E i \in 1..Len(goals) :
           /\ goals[i].progress = goals[i].levels
           /\ goals[i].current_pomodoros > 0

\* what ending the current phase does to the timer, the goals and the file
PhaseCompleted ==
    LET count == IF working THEN sessions + 1 ELSE sessions
        gs == IF working /\ active_goal_index # NoGoal
              THEN [goals EXCEPT ![active_goal_index] = credit(@)]
              ELSE goals
    IN  /\ working' = ~working
        /\ running' = FALSE
        /\ minutes' = IF working THEN BreakMinutes ELSE WorkMinutes
        /\ seconds' = 0
        /\ sessions' = count
        /\ pomodoro_sessions' = count
        /\ goals' = gs
        /\ active_goal_index' = active_goal_index
        /\ file' = save_data(gs, count)

\* C9: a step of "skip", whatever the countdown shows and whether or not it
\* runs, changes phase, countdown, running, sessions, the active goal and
\* the data file exactly as the timer callback that finds 00:00 does.
C9_SkipSameAsTimeout ==
    [][(PressSkip \/ TickAtZero) => PhaseCompleted]_vars

\* a work phase has ended with the active goal credited
C9_Witness ==
    /\ notice = "work over, goal credited"
    /\ ~working /\ ~running
    /\ minutes = BreakMinutes /\ seconds = 0
    /\ sessions = 1
    /\ active_goal_index # NoGoal
    /\ goals[active_goal_index].current_pomodoros = 1

\* C10: every phase completion changes the phase, and every change of phase
\* leaves the countdown at the new phase's length with the timer stopped;
\* the timer starts running only in a step that changes neither the phase
\* nor the countdown.
C10_PhaseBoundary ==
    [][/\ (PressSkip \/ TickAtZero) => working' = ~working
       /\ working' # working
             => /\ minutes' = IF working' THEN WorkMinutes ELSE BreakMinutes
                /\ seconds' = 0
                /\ ~running'
       /\ (~running /\ running')
             => UNCHANGED <<working, minutes, seconds>>]_vars

\* a break has ended: the timer waits at 25:00 in the Working phase
C10_Witness ==
    /\ notice = "break over"
    /\ working /\ ~running
    /\ minutes = WorkMinutes /\ seconds = 0

\* C11: sessions never decreases; it changes only in a step that ends a
\* Working phase (by "skip" or by the timer callback at 00:00), and then by
\* exactly 1; a step that ends a Break phase changes neither sessions nor
\* any goal.
C11_SessionsCountWorkOnly ==
    [][/\ sessions' >= sessions
       /\ sessions' # sessions
             => /\ sessions' = sessions + 1
                /\ working /\ ~working'
                /\ PressSkip \/ TickAtZero
       /\ ((PressSkip \/ TickAtZero) /\ ~working)
             => sessions' = sessions /\ goals' = goals]_vars

\* a break has ended with a goal active: one session counted, one credited
C11_Witness ==
    /\ notice = "break over"
    /\ sessions = 1
    /\ active_goal_index # NoGoal
    /\ goals[active_goal_index].current_pomodoros = 1

\* the texts of a goal screen do not make a valid goal
InvalidGoalTexts(name, levels, pomodoros) ==
    \/ name = ""
    \/ ~IsInt(levels) \/ ~IsInt(pomodoros)
    \/ IntText[levels] <= 0
    \/ IntText[pomodoros] <= 0

\* C12: "save" on the new-goal screen with an empty name, or with levels or
\* pomodoros per level that are not positive integers, reports an error and
\* changes neither the goal list nor the data file; with valid texts it
\* appends the goal with progress 0 and current_pomodoros 0.
C12_CreateValidates ==
    [][\A nm \in NameTexts, lv \in NumberTexts, pm \in NumberTexts :
          NewGoalSave(nm, lv, pm, NoDate, NoDate)
          => IF InvalidGoalTexts(nm, lv, pm)
             THEN /\ goals' = goals
                  /\ file' = file
                  /\ notice' \in {"input error", "name required"}
             ELSE /\ Len(goals') = Len(goals) + 1
                  /\ \A i \in 1..Len(goals) : goals'[i] = goals[i]
                  /\ goals'[Len(goals')].progress = 0
                  /\ goals'[Len(goals')].current_pomodoros = 0]_vars

\* C13: in every reachable state (that is, after every handler that changed
\* the goals or the session count) the data file read back gives the goal
\* list in memory, and its session count is the timer's sessions, which is
\* also the count kept in self.data.
C13_FileMirrorsMemory ==
    /\ load_data(file).goals = goals
    /\ load_data(file).pomodoro_sessions = sessions
    /\ pomodoro_sessions = sessions

\* two goals and a counted session are in memory and in the file
C13_Witness ==
    /\ file.exists
    /\ Len(file.goals) = 2
    /\ sessions > 0
    /\ \E i \in 1..Len(goals) : goals[i].progress > goals[i].current_pomodoros
    /\ \E i \in 1..Len(goals) : goals[i].current_pomodoros > 0

\* C14: the list of today's goals holds exactly the positions of the goals
\* with start <= today <= end, each once and in the order of the store; a
\* goal outside the range, or with start > end, is not in it.
C14_TodayGoals ==
    LET t == today_goals(goals) IN
    /\ \A k \in 1..Len(t) : t[k] \in 1..Len(goals)
    /\ \A k \in 1..(Len(t) - 1) : t[k] < t[k + 1]
    /\ \A i \in 1..Len(goals) :
           (\E k \in 1..Len(t) : t[k] = i)
           <=> (goals[i].start <= Today /\ Today <= goals[i].end)
    /\ \A k \in 1..Len(t) : goals[t[k]].start <= goals[t[k]].end

\* the key picked the only goal of today, listed after a goal whose range
\* is inverted around today
C14_Witness ==
    /\ notice = "goal picked at random"
    /\ Len(goals) = 2
    /\ goals[1].start > Today /\ goals[1].end < Today
    /\ goals[2].start < Today /\ goals[2].end > Today
    /\ today_goals(goals) = <<2>>
    /\ active_goal_index = 2

\* C15: a restart leaves the timer idle in the work phase at 25:00 with no
\* active goal; the session count and the goals are those of the data file,
\* which are those in memory before the restart; without a data file the
\* application starts with no goal and no session.
C15_Restart ==
    [][Restart =>
          /\ working' /\ ~running'
          /\ minutes' = WorkMinutes /\ seconds' = 0
          /\ active_goal_index' = NoGoal
          /\ sessions' = sessions /\ pomodoro_sessions' = sessions
          /\ goals' = goals
          /\ file.exists => /\ sessions' = file.pomodoro_sessions
                            /\ Len(goals') = Len(file.goals)
          /\ ~file.exists => goals' = <<>> /\ sessions' = 0]_vars

\* a credited goal and a counted session with no active goal: the
\* application was launched again after the work session
C15_Witness ==
    /\ active_goal_index = NoGoal
    /\ sessions = 1 /\ working /\ ~running /\ minutes = WorkMinutes
    /\ Len(goals) = 2
    /\ goals[2].current_pomodoros = 1
    /\ file.exists /\ file.pomodoro_sessions = 1

\* C16: the phase and the session count change only in a timer callback that
\* finds a running timer at 00:00, or in "skip"; a callback on a timer that
\* does not run changes no goal, no count and no timer field; "start",
\* "pause" and "reset" keep the phase, the session count and the goals;
\* "start" and "pause" keep the remaining time, and "start" on a running
\* timer changes nothing.
C16_TimerFrame ==
    [][/\ (working' # working \/ sessions' # sessions)
             => (PressSkip \/ TickAtZero)
       /\ (Tick /\ ~running)
             => UNCHANGED <<store, active_goal_index, timer>>
       /\ (PressStart \/ PressPause \/ PressReset)
             => UNCHANGED <<working, sessions, store>>
       /\ (PressStart \/ PressPause)
             => UNCHANGED <<minutes, seconds>>
       /\ (PressStart /\ running)
             => UNCHANGED <<store, active_goal_index, timer>>]_vars

\* a break paused in the middle of its countdown
C16_Witness ==
    /\ ~running /\ ~working
    /\ minutes = BreakMinutes - 1 /\ seconds = LastSecond - 1
    /\ sessions = 1

\* C17: saving an edit of the goal at a position replaces that goal only:
\* the number of goals, every other goal and the active goal are unchanged,
\* the pomodoros of the goal are carried over, and its progress becomes the
\* minimum of the old progress and the new levels, which lies in
\* 0..new levels.
C17_UpdateClamps ==
    [][\A i \in 1..MaxGoals, lv \in EditLevelTexts :
          (/\ i <= Len(goals)
           /\ EditGoalSave(i, goals[i].name, lv, "2",
                           goals[i].start, goals[i].end))
          => /\ Len(goals') = Len(goals)
             /\ \A j \in 1..Len(goals) : j # i => goals'[j] = goals[j]
             /\ active_goal_index' = active_goal_index
             /\ goals'[i].current_pomodoros = goals[i].current_pomodoros
             /\ goals'[i].levels = IntText[lv]
             /\ goals'[i].progress = Min(goals[i].progress, IntText[lv])
             /\ goals'[i].progress \in 0..goals'[i].levels]_vars

\* C18: in every state the active goal is none or a position of the goal
\* list, so that get_active_goal never raises.
C18_ActiveGoalValid ==
    /\ active_goal_index = NoGoal \/ active_goal_index \in 1..Len(goals)
    /\ alive

\* C19: in every state the remaining time is well formed and at most the
\* length of the phase: seconds in 0..59, minutes >= 0, at most 25:00 in a
\* work phase and at most 05:00 in a break.
C19_RemainingBounded ==
    /\ seconds \in 0..LastSecond
    /\ minutes >= 0
    /\ minutes * (LastSecond + 1) + seconds
          <= phase_minutes(working) * (LastSecond + 1)

\* C20: with timer callbacks that keep coming and no "pause" or "reset", a
\* running work phase leads to an idle break and a running break leads to an
\* idle work phase, and a running timer does not stay at 00:00 (work
\* sessions are counted up to MaxSessions).
C20_PhaseCompletes ==
    /\ (running /\ working /\ WithinSessions) ~> (~running /\ ~working)
    /\ (running /\ ~working) ~> (~running /\ working)
    /\ (running /\ minutes = 0 /\ seconds = 0 /\ WithinSessions) ~> ~running

\* a running break that has counted down to 00:00 after a counted session
C20_Witness ==
    /\ running /\ ~working
    /\ minutes = 0 /\ seconds = 0
    /\ sessions = 1

====
